---- MODULE Spec2Model ----
(***************************************************************************)
(* gint-extract: GintDatabase (database.py) and the CLI (extract.py).      *)
(*                                                                         *)
(* The source database, the filesystem and the destination SQLite files    *)
(* are the environment; the object's attributes and the outcome of the     *)
(* last call are the program's state.  Every method is a pure operator on  *)
(* (self, filesystem / destination) computed the way the code computes     *)
(* it; the Call_* actions and main are the callers that apply them.        *)
(***************************************************************************)
EXTENDS Integers, Sequences, FiniteSets, TLC

\* ---------------------------------------------------------------- bounds
MaxTables == 2      \* longest sequence of names cursor.tables() reports
MaxRows == 2        \* most rows a source table holds
MaxSteps == 3       \* most calls and source changes in one session with the object

\* ---------------------------------------------------------------- inputs
Names == {"table1", "table2", "MSysObjects"}
DenyLists == {{}, {"MSysObjects"}, {"MSysObjects", "table2"}}
SessionTables == <<"table1", "MSysObjects", "table2">>
Columns == <<"col1", "col2">>
NoTable == "-"
NoOpt == "-"
LibDir == "out"
LibDb == "out.db"

VARIABLES
    tables,             \* what cursor.tables() reports, in enumeration order
    SYSTEM_TABLES,      \* the denylist imported from gint_extract.vars
    fault,              \* "none", "connect" (pyodbc.connect raises), "tables" (cursor.tables() raises)
    rows,               \* the source: table name -> its rows, in cursor order
    unreadable,         \* tables whose SELECT * raises
    pc,                 \* "start", "ready" (object built), "failed" (constructor raised), "exited" (main ended)
    self,               \* the object: [attrs, table_names, non_empty_tables]
    printed,            \* lines printed by the constructor's except branch
    fs,                 \* filesystem: [dirs, files], files: <<directory, table>> -> csv lines
    dbs,                \* destination SQLite files: path -> (table name -> table)
    conns,              \* destination connections currently open
    ret,                \* the last call and its outcome
    exit_code,          \* -1 while no CLI run has ended, else the process's exit code
    argv,               \* the options the CLI run was given
    steps               \* calls and source changes since the object was built

vars == <<tables, SYSTEM_TABLES, fault, rows, unreadable, pc, self, printed, fs, dbs, conns,
          ret, exit_code, argv, steps>>

Range(s) == {s[i] : i \in DOMAIN s}

SeqsUpTo(S, n) == UNION {[1..k -> S] : k \in 0..n}

\* ------------------------------------------------------------ the source
\* A cell is <<>> (NULL) or <<n>>; row k of any table is fixed by k.
RowAt(k) == <<(<<k>>), (IF k % 2 = 0 THEN <<>> ELSE <<k + 2>>)>>

RowsOfLen(n) == [k \in 1..n |-> RowAt(k)]

EmptyDf == [columns |-> <<>>, rows |-> <<>>]

\* pd.read_sql("SELECT * FROM [table]", cnxn)
read_sql(table) ==
    IF table \notin Range(tables) \/ table \in unreadable
    THEN [raised |-> TRUE, df |-> EmptyDf]
    ELSE [raised |-> FALSE, df |-> [columns |-> Columns, rows |-> rows[table]]]

get_table(table) == read_sql(table)

table_length(table) ==
    LET r == read_sql(table)
    IN  [raised |-> r.raised, len |-> Len(r.df.rows)]

\* ------------------------------------------------------------ the object
Blank == [attrs |-> {}, table_names |-> <<>>, non_empty_tables |-> <<>>]

\* the comprehension without its "if row.table_name not in SYSTEM_TABLES"
FilterSystemTables_unfiltered(reported, deny) == reported

FilterSystemTables(reported, deny) == SelectSeq(reported, LAMBDA n : n \notin deny)

\* the comprehension with ">= 0" for "> 0"
NonEmpty_or_empty(names) == SelectSeq(names, LAMBDA t : table_length(t).len >= 0)

NonEmpty(names) == SelectSeq(names, LAMBDA t : table_length(t).len > 0)

\* GintDatabase(file_path): what the constructor leaves, or that it raised.
GintDatabase ==
    IF fault = "connect"
    THEN [raised |-> TRUE, self |-> Blank, printed |-> 0]
    ELSE IF fault = "tables"
    THEN [raised |-> FALSE, self |-> Blank, printed |-> 1]
    ELSE LET names == FilterSystemTables(tables, SYSTEM_TABLES)
         IN  IF \E i \in DOMAIN names : table_length(names[i]).raised
             THEN [raised |-> FALSE,
                   self |-> [attrs |-> {"table_names"}, table_names |-> names,
                             non_empty_tables |-> <<>>],
                   printed |-> 1]
             ELSE [raised |-> FALSE,
                   self |-> [attrs |-> {"table_names", "non_empty_tables"},
                             table_names |-> names,
                             non_empty_tables |-> NonEmpty(names)],
                   printed |-> 0]

\* ------------------------------------------------------------------- csv
IntText(n) ==
    CASE n = 0 -> "0" [] n = 1 -> "1" [] n = 2 -> "2" [] n = 3 -> "3" [] n = 4 -> "4"
      [] n = 5 -> "5" [] n = 6 -> "6" [] n = 7 -> "7" [] n = 8 -> "8" [] n = 9 -> "9"

CellText(c) == IF c = <<>> THEN "" ELSE IntText(c[1])

\* DataFrame.to_csv(path, index=True): a leading unnamed index column
to_csv_with_index(df) ==
    <<(<<"">> \o df.columns)>> \o
    [i \in 1..Len(df.rows) |->
        <<IntText(i - 1)>> \o [j \in 1..Len(df.columns) |-> CellText(df.rows[i][j])]]

\* DataFrame.to_csv(path, index=False): the header, then one line per row
to_csv(df) ==
    <<df.columns>> \o
    [i \in 1..Len(df.rows) |-> [j \in 1..Len(df.columns) |-> CellText(df.rows[i][j])]]

check_dir(f, dir_path) == [f EXCEPT !.dirs = @ \cup {dir_path}]

WriteFile(f, path, content) ==
    [f EXCEPT !.files = [p \in (DOMAIN f.files) \cup {path} |->
                            IF p = path THEN content ELSE f.files[p]]]

\* wfail: the write raises (permission denied) and leaves the file as it was
write_table_to_csv(f, table, directory, wfail) ==
    LET f1 == check_dir(f, directory)
        r == get_table(table)
    IN  IF r.raised \/ wfail THEN [fs |-> f1, raised |-> TRUE]
        ELSE [fs |-> WriteFile(f1, <<directory, table>>, to_csv(r.df)), raised |-> FALSE]

\* failing: the table whose write raises, or NoTable
RECURSIVE csv_loop(_, _, _, _, _)
csv_loop(f, todo, directory, failing, written) ==
    IF todo = <<>> THEN [fs |-> f, raised |-> FALSE, written |-> written]
    ELSE LET t == Head(todo)
             w == write_table_to_csv(f, t, directory, t = failing)
         IN  IF w.raised THEN [fs |-> w.fs, raised |-> TRUE, written |-> written]
             ELSE csv_loop(w.fs, Tail(todo), directory, failing, Append(written, t))

\* the loop with each write wrapped in try/except: a failing table is skipped
RECURSIVE csv_loop_skipping(_, _, _, _, _)
csv_loop_skipping(f, todo, directory, failing, written) ==
    IF todo = <<>> THEN [fs |-> f, raised |-> FALSE, written |-> written]
    ELSE LET t == Head(todo)
             w == write_table_to_csv(f, t, directory, t = failing)
         IN  csv_loop_skipping(w.fs, Tail(todo), directory, failing,
                               IF w.raised THEN written ELSE Append(written, t))

write_all_tables_to_csv_skipping(obj, f, directory, failing) ==
    LET f1 == check_dir(f, directory)
    IN  IF "non_empty_tables" \notin obj.attrs
        THEN [fs |-> f1, raised |-> TRUE, written |-> <<>>]
        ELSE csv_loop_skipping(f1, obj.non_empty_tables, directory, failing, <<>>)

write_all_tables_to_csv(obj, f, directory, failing) ==
    LET f1 == check_dir(f, directory)
    IN  IF "non_empty_tables" \notin obj.attrs
        THEN [fs |-> f1, raised |-> TRUE, written |-> <<>>]
        ELSE csv_loop(f1, obj.non_empty_tables, directory, failing, <<>>)

\* ----------------------------------------------------------------- sqlite
PutTable(db, table, content) ==
    [n \in (DOMAIN db) \cup {table} |-> IF n = table THEN content ELSE db[n]]

\* DataFrame.to_sql(table, conn, if_exists="append", index=False)
to_sql_append(db, table, df) ==
    IF table \in DOMAIN db
    THEN PutTable(db, table, [columns |-> db[table].columns, rows |-> db[table].rows \o df.rows])
    ELSE PutTable(db, table, [columns |-> df.columns, rows |-> df.rows])

\* DataFrame.to_sql(table, conn, if_exists="replace", index=False)
to_sql(db, table, df) == PutTable(db, table, [columns |-> df.columns, rows |-> df.rows])

write_table_to_sqlite(db, table, wfail) ==
    LET r == get_table(table)
    IN  IF r.raised \/ wfail THEN [db |-> db, raised |-> TRUE]
        ELSE [db |-> to_sql(db, table, r.df), raised |-> FALSE]

RECURSIVE sqlite_loop(_, _, _, _)
sqlite_loop(db, todo, failing, written) ==
    IF todo = <<>> THEN [db |-> db, raised |-> FALSE, written |-> written]
    ELSE LET t == Head(todo)
             w == write_table_to_sqlite(db, t, t = failing)
         IN  IF w.raised THEN [db |-> w.db, raised |-> TRUE, written |-> written]
             ELSE sqlite_loop(w.db, Tail(todo), failing, Append(written, t))

\* sqlite_engine.connect(): the file is created when absent
Connect(d, path) ==
    IF path \in DOMAIN d THEN d
    ELSE [p \in (DOMAIN d) \cup {path} |-> IF p = path THEN << >> ELSE d[p]]

\* the loop of write_all_tables_to_sqlite without the with block:
\* the connection is closed only when the loop ends normally
write_all_tables_to_sqlite_unscoped(obj, d, destination_path, failing) ==
    LET d1 == Connect(d, destination_path)
        w == IF "non_empty_tables" \notin obj.attrs
             THEN [db |-> d1[destination_path], raised |-> TRUE, written |-> <<>>]
             ELSE sqlite_loop(d1[destination_path], obj.non_empty_tables, failing, <<>>)
    IN  [dbs |-> [d1 EXCEPT ![destination_path] = w.db], raised |-> w.raised,
         written |-> w.written, opened |-> 1, closed |-> IF w.raised THEN 0 ELSE 1]

write_all_tables_to_sqlite(obj, d, destination_path, failing) ==
    LET d1 == Connect(d, destination_path)
        w == IF "non_empty_tables" \notin obj.attrs
             THEN [db |-> d1[destination_path], raised |-> TRUE, written |-> <<>>]
             ELSE sqlite_loop(d1[destination_path], obj.non_empty_tables, failing, <<>>)
    IN  [dbs |-> [d1 EXCEPT ![destination_path] = w.db], raised |-> w.raised,
         written |-> w.written, opened |-> 1, closed |-> 1]

\* ------------------------------------------------------------------ state
\* again: the call repeats the call before it (same method, table and target), both
\* returning normally, with no source change in between
NoRet == [op |-> "none", table |-> NoTable, path |-> NoOpt, raised |-> FALSE,
          written |-> <<>>, opened |-> 0, again |-> FALSE]

Ret(op, table, path, raised, written, opened) ==
    [op |-> op, table |-> table, path |-> path, raised |-> raised,
     written |-> written, opened |-> opened,
     again |-> (ret.op = op /\ ret.table = table /\ ret.path = path
                /\ ~ret.raised /\ ~raised)]

NoArgv == [dir |-> NoOpt, format |-> NoOpt]

Fresh ==
    /\ pc = "start"
    /\ self = Blank
    /\ printed = 0
    /\ fs = [dirs |-> {}, files |-> << >>]
    /\ dbs = << >>
    /\ conns = 0
    /\ ret = NoRet
    /\ exit_code = -1
    /\ argv = NoArgv
    /\ steps = 0

\* A session with the object: one database, any row counts, any one fault.
Init ==
    /\ tables = SessionTables
    /\ SYSTEM_TABLES = {"MSysObjects"}
    /\ fault \in {"none", "connect", "tables"}
    /\ \E len \in [Names -> 0..MaxRows] :
          rows = [t \in Names |-> IF t = "MSysObjects" THEN RowsOfLen(1) ELSE RowsOfLen(len[t])]
    /\ unreadable \in {{}} \cup {{t} : t \in Names}
    /\ Fresh

\* One run of the constructor or of the CLI: any enumeration, denylist and fault.
InitLoad ==
    /\ tables \in SeqsUpTo(Names, MaxTables)
    /\ SYSTEM_TABLES \in DenyLists
    /\ fault \in {"none", "connect", "tables"}
    /\ \E len \in [Names -> 0..MaxRows] :
          rows = [t \in Names |-> IF t \in Range(tables) THEN RowsOfLen(len[t]) ELSE <<>>]
    /\ unreadable \in {{}} \cup {{t} : t \in Range(tables)}
    /\ Fresh

Source == <<tables, SYSTEM_TABLES, fault, rows, unreadable>>
Object == <<self, printed>>

\* ------------------------------------------------- the source changes
SourceInsert(t) ==
    /\ pc = "ready" /\ steps < MaxSteps
    /\ t \in Range(tables)
    /\ Len(rows[t]) < MaxRows
    /\ rows' = [rows EXCEPT ![t] = Append(@, RowAt(Len(@) + 1))]
    /\ ret' = NoRet
    /\ steps' = steps + 1
    /\ UNCHANGED <<tables, SYSTEM_TABLES, fault, unreadable, pc, Object, fs, dbs, conns, exit_code, argv>>

SourceDelete(t) ==
    /\ pc = "ready" /\ steps < MaxSteps
    /\ t \in Range(tables)
    /\ rows[t] # <<>>
    /\ rows' = [rows EXCEPT ![t] = <<>>]
    /\ ret' = NoRet
    /\ steps' = steps + 1
    /\ UNCHANGED <<tables, SYSTEM_TABLES, fault, unreadable, pc, Object, fs, dbs, conns, exit_code, argv>>

SourceBreak(t) ==
    /\ pc = "ready" /\ steps < MaxSteps
    /\ t \in Range(tables)
    /\ unreadable = {}
    /\ unreadable' = {t}
    /\ ret' = NoRet
    /\ steps' = steps + 1
    /\ UNCHANGED <<tables, SYSTEM_TABLES, fault, rows, pc, Object, fs, dbs, conns, exit_code, argv>>

\* ------------------------------------------------------------- the calls
\* db = GintDatabase(file_path)
__init__ ==
    /\ pc = "start"
    /\ LET new == GintDatabase
       IN  /\ pc' = IF new.raised THEN "failed" ELSE "ready"
           /\ self' = new.self
           /\ printed' = printed + new.printed
           /\ ret' = Ret("__init__", NoTable, NoOpt, new.raised, <<>>, 0)
    /\ UNCHANGED <<Source, fs, dbs, conns, exit_code, argv, steps>>

Call_get_table(t) ==
    /\ pc = "ready" /\ steps < MaxSteps
    /\ ret' = Ret("get_table", t, NoOpt, get_table(t).raised, <<>>, 0)
    /\ steps' = steps + 1
    /\ UNCHANGED <<Source, pc, Object, fs, dbs, conns, exit_code, argv>>

Call_table_length(t) ==
    /\ pc = "ready" /\ steps < MaxSteps
    /\ ret' = Ret("table_length", t, NoOpt, table_length(t).raised, <<>>, 0)
    /\ steps' = steps + 1
    /\ UNCHANGED <<Source, pc, Object, fs, dbs, conns, exit_code, argv>>

Call_write_table_to_csv(t, wfail) ==
    /\ pc = "ready" /\ steps < MaxSteps
    /\ LET w == write_table_to_csv(fs, t, LibDir, wfail)
       IN  /\ fs' = w.fs
           /\ ret' = Ret("write_table_to_csv", t, LibDir, w.raised,
                         IF w.raised THEN <<>> ELSE <<t>>, 0)
    /\ steps' = steps + 1
    /\ UNCHANGED <<Source, pc, Object, dbs, conns, exit_code, argv>>

\* write_all_tables_to_csv recomputing non_empty_tables before it exports
Call_write_all_tables_to_csv_revalidating(failing) ==
    /\ pc = "ready" /\ steps < MaxSteps
    /\ LET w == write_all_tables_to_csv(self, fs, LibDir, failing)
       IN  /\ fs' = w.fs
           /\ ret' = Ret("write_all_tables_to_csv", NoTable, LibDir, w.raised, w.written, 0)
    /\ self' = [self EXCEPT !.non_empty_tables = NonEmpty(self.table_names)]
    /\ steps' = steps + 1
    /\ UNCHANGED <<Source, pc, printed, dbs, conns, exit_code, argv>>

Call_write_all_tables_to_csv(failing) ==
    /\ pc = "ready" /\ steps < MaxSteps
    /\ LET w == write_all_tables_to_csv(self, fs, LibDir, failing)
       IN  /\ fs' = w.fs
           /\ ret' = Ret("write_all_tables_to_csv", NoTable, LibDir, w.raised, w.written, 0)
    /\ steps' = steps + 1
    /\ UNCHANGED <<Source, pc, Object, dbs, conns, exit_code, argv>>

\* the caller opens a connection to LibDb, passes it, and closes it
Call_write_table_to_sqlite(t, wfail) ==
    /\ pc = "ready" /\ steps < MaxSteps
    /\ LET d1 == Connect(dbs, LibDb)
           w == write_table_to_sqlite(d1[LibDb], t, wfail)
       IN  /\ dbs' = [d1 EXCEPT ![LibDb] = w.db]
           /\ ret' = Ret("write_table_to_sqlite", t, LibDb, w.raised,
                         IF w.raised THEN <<>> ELSE <<t>>, 0)
    /\ steps' = steps + 1
    /\ UNCHANGED <<Source, pc, Object, fs, conns, exit_code, argv>>

Call_write_all_tables_to_sqlite(failing) ==
    /\ pc = "ready" /\ steps < MaxSteps
    /\ LET w == write_all_tables_to_sqlite(self, dbs, LibDb, failing)
       IN  /\ dbs' = w.dbs
           /\ conns' = conns + w.opened - w.closed
           /\ ret' = Ret("write_all_tables_to_sqlite", NoTable, LibDb, w.raised,
                         w.written, w.opened)
    /\ steps' = steps + 1
    /\ UNCHANGED <<Source, pc, Object, fs, exit_code, argv>>

\* ---------------------------------------------------------------- the CLI
parse_args(given) ==
    [dir |-> IF given.dir = NoOpt THEN "csv" ELSE given.dir,
     format |-> IF given.format = NoOpt THEN "csv" ELSE given.format]

Argv == [dir : {NoOpt, "out"}, format : {NoOpt, "csv", "sqlite", "unsupported"}]

\* main with a final else for the elif: any other format exports to sqlite
main_else_sqlite(given, failing) ==
    /\ pc = "start"
    /\ pc' = "exited"
    /\ argv' = given
    /\ LET args == parse_args(given)
           new == GintDatabase
       IN  /\ self' = new.self
           /\ printed' = printed + new.printed
           /\ IF new.raised
              THEN /\ ret' = Ret("__init__", NoTable, NoOpt, TRUE, <<>>, 0)
                   /\ exit_code' = 1
                   /\ UNCHANGED <<fs, dbs, conns>>
              ELSE IF args.format = "csv"
              THEN LET w == write_all_tables_to_csv(new.self, fs, args.dir, failing)
                   IN  /\ fs' = w.fs
                       /\ ret' = Ret("write_all_tables_to_csv", NoTable, args.dir,
                                     w.raised, w.written, 0)
                       /\ exit_code' = IF w.raised THEN 1 ELSE 0
                       /\ UNCHANGED <<dbs, conns>>
              ELSE LET w == write_all_tables_to_sqlite(new.self, dbs, args.dir, failing)
                   IN  /\ dbs' = w.dbs
                       /\ conns' = conns + w.opened - w.closed
                       /\ ret' = Ret("write_all_tables_to_sqlite", NoTable, args.dir,
                                     w.raised, w.written, w.opened)
                       /\ exit_code' = IF w.raised THEN 1 ELSE 0
                       /\ UNCHANGED fs
    /\ UNCHANGED <<Source, steps>>

main(given, failing) ==
    /\ pc = "start"
    /\ pc' = "exited"
    /\ argv' = given
    /\ LET args == parse_args(given)
           new == GintDatabase
       IN  /\ self' = new.self
           /\ printed' = printed + new.printed
           /\ IF new.raised
              THEN /\ ret' = Ret("__init__", NoTable, NoOpt, TRUE, <<>>, 0)
                   /\ exit_code' = 1
                   /\ UNCHANGED <<fs, dbs, conns>>
              ELSE IF args.format = "csv"
              THEN LET w == write_all_tables_to_csv(new.self, fs, args.dir, failing)
                   IN  /\ fs' = w.fs
                       /\ ret' = Ret("write_all_tables_to_csv", NoTable, args.dir,
                                     w.raised, w.written, 0)
                       /\ exit_code' = IF w.raised THEN 1 ELSE 0
                       /\ UNCHANGED <<dbs, conns>>
              ELSE IF args.format = "sqlite"
              THEN LET w == write_all_tables_to_sqlite(new.self, dbs, args.dir, failing)
                   IN  /\ dbs' = w.dbs
                       /\ conns' = conns + w.opened - w.closed
                       /\ ret' = Ret("write_all_tables_to_sqlite", NoTable, args.dir,
                                     w.raised, w.written, w.opened)
                       /\ exit_code' = IF w.raised THEN 1 ELSE 0
                       /\ UNCHANGED fs
              ELSE /\ ret' = NoRet
                   /\ exit_code' = 0
                   /\ UNCHANGED <<fs, dbs, conns>>
    /\ UNCHANGED <<Source, steps>>

Next ==
    \/ \E t \in Names : SourceInsert(t)
    \/ \E t \in Names : SourceDelete(t)
    \/ \E t \in Names : SourceBreak(t)
    \/ __init__
    \/ \E t \in Names : Call_get_table(t)
    \/ \E t \in Names : Call_table_length(t)
    \/ \E t \in Names, wfail \in BOOLEAN : Call_write_table_to_csv(t, wfail)
    \/ \E failing \in Names \cup {NoTable} : Call_write_all_tables_to_csv(failing)
    \/ \E t \in Names, wfail \in BOOLEAN : Call_write_table_to_sqlite(t, wfail)
    \/ \E failing \in Names \cup {NoTable} : Call_write_all_tables_to_sqlite(failing)
    \/ \E given \in Argv, failing \in Names \cup {NoTable} : main(given, failing)

NextLoad ==
    \/ __init__
    \/ \E given \in Argv, failing \in Names \cup {NoTable} : main(given, failing)

Spec == Init /\ [][Next]_vars

SpecLoad == InitLoad /\ [][NextLoad]_vars

\* ================================================================ claims
BulkOps == {"write_all_tables_to_csv", "write_all_tables_to_sqlite"}

SqliteOps == {"write_table_to_sqlite", "write_all_tables_to_sqlite"}

CsvOps == {"write_table_to_csv", "write_all_tables_to_csv"}

IsPrefix(p, s) == Len(p) <= Len(s) /\ \A i \in DOMAIN p : p[i] = s[i]

\* the source's table as the driver holds it: its columns and its rows in cursor order
Snapshot(t) == [columns |-> Columns, rows |-> rows[t]]

\* the non-denylisted tables that hold at least one row now
NonEmptyNow == {t \in Range(tables) \ SYSTEM_TABLES : Len(rows[t]) > 0}

\* reading a csv file back: the header gives the columns, an empty field is NULL
ParseCell(s) == IF s = "" THEN <<>> ELSE <<CHOOSE n \in 0..9 : IntText(n) = s>>

read_csv(lines) ==
    [columns |-> lines[1],
     rows |-> [i \in 1..(Len(lines) - 1) |->
                  [j \in DOMAIN lines[i + 1] |-> ParseCell(lines[i + 1][j])]]]

\* the enumeration with the denylisted names struck out, one name at a time
RECURSIVE Without(_, _)
Without(s, deny) ==
    IF s = <<>> THEN <<>>
    ELSE IF Head(s) \in deny THEN Without(Tail(s), deny)
    ELSE <<Head(s)>> \o Without(Tail(s), deny)

\* the output a bulk or single export left for table t
HasOutput(t) ==
    IF ret.op \in CsvOps
    THEN <<ret.path, t>> \in DOMAIN fs.files
    ELSE ret.path \in DOMAIN dbs /\ t \in DOMAIN dbs[ret.path]

\* C1: when enumeration or row counting raised in the constructor, the object holds
\* an empty table list and every later bulk export returns normally, writing nothing.
C1_FailedEnumerationMakesExportsNoOps ==
    (pc = "ready" /\ printed > 0 /\ ret.op \in BulkOps) =>
        /\ "non_empty_tables" \in self.attrs
        /\ self.non_empty_tables = <<>>
        /\ ~ret.raised
        /\ ret.written = <<>>

\* C2: a connection failure in the constructor is caught and logged, not re-raised:
\* the constructor returns an object and the run goes on.
C2_ConnectionFailureIsCaught ==
    (fault = "connect" /\ pc # "start") =>
        /\ pc \in {"ready", "exited"}
        /\ ~ret.raised
        /\ printed = 1
        /\ exit_code # 1

\* C3: table_names is the driver's enumeration with the denylisted names removed,
\* order kept, nothing added, dropped, duplicated or reordered.
C3_TableNamesAreFilteredEnumeration ==
    "table_names" \in self.attrs => self.table_names = Without(tables, SYSTEM_TABLES)

C3_Witness ==
    /\ pc = "ready" /\ printed = 0
    /\ Len(tables) = 2 /\ tables[1] \in SYSTEM_TABLES
    /\ self.table_names = <<tables[2]>>

\* C4 as stated: a bulk export that returns has written exactly the non-denylisted
\* tables that hold at least one row.
C4_WrittenAreTablesWithRows ==
    (ret.op \in BulkOps /\ ~ret.raised) => Range(ret.written) = NonEmptyNow

\* C4 amended: non_empty_tables is the non-denylisted tables that held at least one
\* row when the object was built, and a bulk export that returns has written exactly
\* those, each to its output.
C4_WrittenAreNonEmptyAtConstruction ==
    /\ []((ret.op \in BulkOps /\ ~ret.raised) =>
            /\ Range(ret.written) = Range(self.non_empty_tables)
            /\ \A t \in Range(ret.written) : HasOutput(t))
    /\ [][(pc = "start" /\ "non_empty_tables" \in self'.attrs) =>
            Range(self'.non_empty_tables) = NonEmptyNow]_vars

C4_Witness ==
    /\ pc = "ready" /\ steps = 1
    /\ ret.op = "write_all_tables_to_csv" /\ ~ret.raised
    /\ rows["table2"] = <<>>
    /\ ret.written = <<"table1">>
    /\ <<LibDir, "table2">> \notin DOMAIN fs.files

\* C5: once the object is built, no call and no change of the source alters
\* table_names or non_empty_tables.
C5_TableListsFixedAtConstruction == [][pc = "ready" => self' = self]_vars

C5_Witness ==
    /\ pc = "ready"
    /\ ret.op = "write_all_tables_to_sqlite" /\ ~ret.raised
    /\ \E t \in Range(self.non_empty_tables) : rows[t] = <<>>

\* C6: after write_table_to_csv(name, directory) the file <directory>/<name>.csv reads
\* back as the source's columns and rows at the time of the call, with no index column.
C6_CsvHoldsFreshSnapshot ==
    (ret.op \in CsvOps /\ ~ret.raised) =>
        \A t \in Range(ret.written) :
            /\ <<ret.path, t>> \in DOMAIN fs.files
            /\ read_csv(fs.files[<<ret.path, t>>]) = Snapshot(t)

C6_Witness ==
    /\ ret.op = "write_table_to_csv" /\ ~ret.raised
    /\ ret.table \in Range(self.table_names)
    /\ ret.table \notin Range(self.non_empty_tables)
    /\ "non_empty_tables" \in self.attrs
    /\ Len(rows[ret.table]) = 2

\* C7: a SQLite export leaves the destination table equal to the source's table
\* (replaced, no index column), and repeating the export changes nothing.
C7_SqliteExportIdempotent ==
    [][(ret'.op \in SqliteOps /\ ~ret'.raised) =>
          /\ \A t \in Range(ret'.written) : dbs'[ret'.path][t] = Snapshot(t)
          /\ (ret'.again => dbs' = dbs)]_vars

C7_Witness ==
    /\ ret.op = "write_table_to_sqlite" /\ ret.again
    /\ rows[ret.table] # <<>>

C9_OneConnectionAlwaysClosed ==
    /\ conns = 0
    /\ (ret.op = "write_all_tables_to_sqlite" =>
            /\ ret.opened = 1
            /\ ("non_empty_tables" \in self.attrs =>
                    /\ IsPrefix(ret.written, self.non_empty_tables)
                    /\ (~ret.raised => ret.written = self.non_empty_tables)))

C9_Witness ==
    /\ ret.op = "write_all_tables_to_sqlite" /\ ret.raised
    /\ ret.written # <<>>

\* C10: a table failure in a bulk export propagates: the call raises (and main exits
\* non-zero), the tables after the failing one are not exported, and the tables
\* before it keep the outputs they were given.
C10_FailureAbortsBulkExport ==
    (ret.op \in BulkOps /\ "non_empty_tables" \in self.attrs) =>
        /\ IsPrefix(ret.written, self.non_empty_tables)
        /\ (ret.raised <=> Len(ret.written) < Len(self.non_empty_tables))
        /\ (pc = "exited" => exit_code = (IF ret.raised THEN 1 ELSE 0))
        /\ \A t \in Range(ret.written) :
              /\ HasOutput(t)
              /\ IF ret.op \in CsvOps
                 THEN read_csv(fs.files[<<ret.path, t>>]) = Snapshot(t)
                 ELSE dbs[ret.path][t] = Snapshot(t)

C10_Witness ==
    /\ pc = "exited" /\ exit_code = 1
    /\ ret.op = "write_all_tables_to_csv" /\ ret.raised
    /\ Len(ret.written) = 1 /\ Len(self.non_empty_tables) = 2

====
